---------------------------- MODULE Spec2Model ----------------------------
(***************************************************************************)
(* A model of wrangler's manifest resolution                              *)
(* (src/settings/toml/manifest.rs): a Manifest value (the top level of    *)
(* wrangler.toml plus its [env.*] overlays), its constructors new,        *)
(* from_str and generate, the duplicate-name check, and the queries       *)
(* worker_name, get_environment, get_target and deploy_config.            *)
(*                                                                         *)
(* Encoding of Rust values:                                                *)
(*   Option<T>      None is <<>>, Some(v) is <<v>>                         *)
(*   String         a TLA+ string; format!("{}-{}", a, b) is a \o "-" \o b *)
(*   Vec<T>         a sequence                                             *)
(*   HashMap<K, V>  a function from the set of its keys                    *)
(*   HashSet<T>     a set                                                  *)
(*   Result<T, E>   [tag |-> "Ok", val |-> v] or [tag |-> "Err", err |-> e]*)
(***************************************************************************)
EXTENDS Naturals, Sequences, FiniteSets, TLC

VARIABLES
    manifest,   \* the deserialized document, and once a constructor has
                \* returned, the Manifest it returned
    built,      \* "none" | "new" | "from_str" | "generate" | "rejected" |
                \* "generate_failed"
    ctor,       \* the result of check_for_duplicate_names inside Manifest::new
    op,         \* the last query made on the constructed Manifest ("none" before)
    arg,        \* its environment argument, an Option<&str>
    res         \* what it returned

vars == <<manifest, built, ctor, op, arg, res>>

\* The number of environment keys the documents of the model draw from.
MaxEnvs == 2

None == <<>>
Some(v) == <<v>>
IsSome(o) == o # <<>>
Unwrap(o) == o[1]

Ok(v) == [tag |-> "Ok", val |-> v]
Err(e) == [tag |-> "Err", err |-> e]
IsOk(r) == r.tag = "Ok"
IsErr(r) == r.tag = "Err"

\* The error values the code bails with, named after spec.md section 7.
NoEnvironmentsDefined == [kind |-> "NoEnvironmentsDefined"]
UnknownEnvironment(e) == [kind |-> "UnknownEnvironment", name |-> e]
NameConflictError(d) == [kind |-> "NameConflictError", duplicates |-> d]
EnvironmentRouteRequired == [kind |-> "EnvironmentRouteRequired"]
NameError(s) == [kind |-> "NameError", name |-> s]
RouteError(k) == [kind |-> k]

----------------------------------------------------------------------------
(* The Manifest and the Environment values of the model.                   *)

AllEnvKeys == <<"b", "c", "d", "e">>
EnvKeys == {AllEnvKeys[i] : i \in 1..MaxEnvs}
FirstKey == AllEnvKeys[1]
\* An environment name no document of the model declares.
MissingKey == "zz"
EnvArgs == {None} \cup {Some(k) : k \in EnvKeys \cup {MissingKey}}

KvA == [id |-> "ida", binding |-> "A", bucket |-> None]
KvB == [id |-> "idb", binding |-> "B", bucket |-> None]
\* A [site] table; the queries only test its presence and copy it.
SiteS == [bucket |-> "./public"]

\* Environment::default(): an overlay that sets nothing.
DefaultEnvironment ==
    [name |-> None, account_id |-> None, workers_dev |-> None, route |-> None,
     routes |-> None, zone_id |-> None, webpack_config |-> None,
     kv_namespaces |-> None]

\* Manifest::default(), the template generate falls back to: empty strings,
\* None everywhere, the default target type.
ManifestDefault ==
    [name |-> "", target_type |-> "Webpack", account_id |-> "",
     workers_dev |-> None, route |-> None, routes |-> None, zone_id |-> None,
     webpack_config |-> None, private |-> None, site |-> None,
     kv_namespaces |-> None, env |-> None]

\* The document the families of the model vary: a named JavaScript project
\* that sets nothing else.
BaseManifest ==
    [name |-> "a", target_type |-> "JavaScript", account_id |-> "",
     workers_dev |-> None, route |-> None, routes |-> None, zone_id |-> None,
     webpack_config |-> None, private |-> None, site |-> None,
     kv_namespaces |-> None, env |-> None]

\* Every HashMap whose keys are some of EnvKeys: the first key's overlay is
\* drawn from `first`, every other key's from `others`.
EnvTables(first, others) ==
    UNION {[S -> first \cup others] : S \in SUBSET EnvKeys}

EnvOptions(first, others) ==
    {None} \cup
    {Some(t) : t \in {u \in EnvTables(first, others) :
                        \A k \in DOMAIN u : k # FirstKey => u[k] \in others}}

\* Documents that differ in their names: the top-level name, which overlays
\* exist, and the explicit name of each.
NameOverlays ==
    {[DefaultEnvironment EXCEPT !.name = n] :
        n \in {None, Some("a"), Some("a-b"), Some("c")}}

NameFamily ==
    {[BaseManifest EXCEPT !.name = n, !.workers_dev = Some(TRUE),
                          !.account_id = "acct", !.env = e] :
        n \in {"a", "a-b", "A"}, e \in EnvOptions(NameOverlays, NameOverlays)}

\* Documents that differ in the fields get_target reads.
TargetOverlays ==
    {[DefaultEnvironment EXCEPT !.account_id = a, !.webpack_config = w,
                                !.kv_namespaces = k] :
        a \in {None, Some("eacct")}, w \in {None, Some("env.webpack.js")},
        k \in {None, Some(<<KvB>>)}}

TargetFamily ==
    {[BaseManifest EXCEPT !.target_type = t, !.site = s, !.kv_namespaces = k,
                          !.account_id = a, !.webpack_config = w, !.env = e] :
        t \in {"JavaScript", "Rust", "Webpack"}, s \in {None, Some(SiteS)},
        k \in {None, Some(<<KvA>>)}, a \in {"", "acct"},
        w \in {None, Some("webpack.js")},
        e \in EnvOptions(TargetOverlays, {DefaultEnvironment})}

\* Documents that differ in the routing fields deploy_config reads.
RouteOverlays ==
    {[DefaultEnvironment EXCEPT !.workers_dev = d, !.route = r, !.routes = rs,
                                !.zone_id = z] :
        d \in {None, Some(TRUE), Some(FALSE)}, r \in {None, Some("e.com/*")},
        rs \in {None, Some(<<"e1.com/*">>)}, z \in {None, Some("ezone")}}

RouteFamily ==
    {[BaseManifest EXCEPT !.name = n, !.account_id = a, !.workers_dev = d,
                          !.route = r, !.routes = rs, !.zone_id = z, !.env = e] :
        n \in {"a", "A"}, a \in {"", "acct"},
        d \in {None, Some(TRUE), Some(FALSE)}, r \in {None, Some("t.com/*")},
        rs \in {None, Some(<<>>), Some(<<"t1.com/*">>)},
        z \in {None, Some("zone")},
        e \in EnvOptions(RouteOverlays, {DefaultEnvironment})}

Manifests == NameFamily \cup TargetFamily \cup RouteFamily

----------------------------------------------------------------------------
(* Collaborators that manifest.rs calls and does not define, as spec.md   *)
(* describes them.                                                         *)

NameChars ==
    {"a", "b", "c", "d", "e", "f", "g", "h", "i", "j", "k", "l", "m", "n",
     "o", "p", "q", "r", "s", "t", "u", "v", "w", "x", "y", "z", "0", "1",
     "2", "3", "4", "5", "6", "7", "8", "9", "-", "_"}

\* spec.md section 1: isValidName(string) -> bool, a pure predicate.
IsValidName(s) ==
    /\ Len(s) > 0
    /\ \A i \in 1..Len(s) : SubSeq(s, i, i) \in NameChars

\* validate_worker_name(&script): Ok(()) or the name error.
validate_worker_name(script) ==
    IF IsValidName(script) THEN Ok(<<>>) ELSE Err(NameError(script))

\* Option::or
OrElse(o, fallback) == IF IsSome(o) THEN o ELSE fallback

\* Environment::route_config(top_level_account_id, top_level_zone_id), spec.md
\* section 4.3: an overlay that sets none of workers_dev, route, routes has
\* no routing configuration of its own; otherwise its own routing fields are
\* taken whole, with the top level's account_id and zone_id as fallbacks.
environment_route_config(environment, top_level_account_id, top_level_zone_id) ==
    IF /\ environment.workers_dev = None
       /\ environment.route = None
       /\ environment.routes = None
    THEN None
    ELSE Some([account_id  |-> OrElse(environment.account_id,
                                        Some(top_level_account_id)),
               workers_dev |-> environment.workers_dev,
               route       |-> environment.route,
               routes      |-> environment.routes,
               zone_id     |-> OrElse(environment.zone_id, top_level_zone_id)])

HasRoute(rc) == IsSome(rc.route)
HasRoutes(rc) == IsSome(rc.routes) /\ Unwrap(rc.routes) # <<>>
IsWorkersDev(rc) == rc.workers_dev = Some(TRUE)
HasAccountId(rc) == IsSome(rc.account_id) /\ Unwrap(rc.account_id) # ""

Zoned(account_id, zone_id, script_name, routes) ==
    [variant |-> "Zoned", account_id |-> account_id, zone_id |-> zone_id,
     script_name |-> script_name, routes |-> routes]

Zoneless(account_id, script_name, workers_dev) ==
    [variant |-> "Zoneless", account_id |-> account_id,
     script_name |-> script_name, workers_dev |-> workers_dev]

\* DeployConfig::build(script_name, route_config), the decision table of
\* spec.md section 4.3.
DeployConfigBuild(script_name, rc) ==
    IF \/ HasRoute(rc) /\ HasRoutes(rc)
       \/ IsWorkersDev(rc) /\ (HasRoute(rc) \/ HasRoutes(rc))
    THEN Err(RouteError("AmbiguousConfig"))
    ELSE IF HasRoute(rc) \/ HasRoutes(rc)
    THEN IF ~HasAccountId(rc)
         THEN Err(RouteError("MissingAccountId"))
         ELSE IF rc.zone_id = None
         THEN Err(RouteError("NoTarget"))
         ELSE Ok(Zoned(Unwrap(rc.account_id), Unwrap(rc.zone_id), script_name,
                       IF HasRoute(rc) THEN <<Unwrap(rc.route)>>
                                       ELSE Unwrap(rc.routes)))
    ELSE IF IsWorkersDev(rc)
    THEN Ok(Zoneless(IF IsSome(rc.account_id) THEN Unwrap(rc.account_id) ELSE "",
                     script_name, TRUE))
    ELSE Err(RouteError("NoTarget"))

----------------------------------------------------------------------------
(* The methods of Manifest.                                                *)

\* get_environment falling back to "no environment" when the name is unknown.
get_environment_Lenient(m, environment_name) ==
    IF /\ IsSome(environment_name)
       /\ IsSome(m.env)
       /\ Unwrap(environment_name) \in DOMAIN Unwrap(m.env)
    THEN Ok(Some(Unwrap(m.env)[Unwrap(environment_name)]))
    ELSE Ok(None)

\* Manifest::get_environment
get_environment(m, environment_name) ==
    IF IsSome(environment_name)
    THEN IF IsSome(m.env)
         THEN IF Unwrap(environment_name) \in DOMAIN Unwrap(m.env)
              THEN Ok(Some(Unwrap(m.env)[Unwrap(environment_name)]))
              ELSE Err(UnknownEnvironment(Unwrap(environment_name)))
         ELSE Err(NoEnvironmentsDefined)
    ELSE Ok(None)

\* Result<Option<_>, _>::unwrap_or_default
unwrap_or_default(r) == IF IsOk(r) THEN r.val ELSE None

\* worker_name appending the environment argument without looking it up.
worker_name_Unchecked(m, env_arg) ==
    LET environment == unwrap_or_default(get_environment(m, env_arg)) IN
    IF IsSome(environment) /\ IsSome(Unwrap(environment).name)
    THEN Unwrap(Unwrap(environment).name)
    ELSE IF IsSome(env_arg)
    THEN m.name \o "-" \o Unwrap(env_arg)
    ELSE m.name

\* Manifest::worker_name
worker_name(m, env_arg) ==
    LET environment == unwrap_or_default(get_environment(m, env_arg)) IN
    IF IsSome(environment) /\ IsSome(Unwrap(environment).name)
    THEN Unwrap(Unwrap(environment).name)
    ELSE IF IsSome(environment) /\ IsSome(env_arg)
    THEN m.name \o "-" \o Unwrap(env_arg)
    ELSE m.name

\* route_config leaving the route list behind.
route_config_NoRoutes(m) ==
    [account_id  |-> Some(m.account_id),
     workers_dev |-> m.workers_dev,
     route       |-> m.route,
     routes      |-> None,
     zone_id     |-> m.zone_id]

\* Manifest::route_config
route_config(m) ==
    [account_id  |-> Some(m.account_id),
     workers_dev |-> m.workers_dev,
     route       |-> m.route,
     routes      |-> m.routes,
     zone_id     |-> m.zone_id]

\* The fallback returning whatever the top level resolves to.
top_level_fallback_AllowZoned(top_level_config) == top_level_config

\* Manifest::deploy_config, the else branch taken when the environment has no
\* routing configuration: `?` on the top-level build, then the match.
top_level_fallback(top_level_config) ==
    IF IsErr(top_level_config) THEN top_level_config
    ELSE IF top_level_config.val.variant = "Zoned"
    THEN Err(EnvironmentRouteRequired)
    ELSE top_level_config

\* Manifest::deploy_config
deploy_config(m, env) ==
    LET script == worker_name(m, env)
        valid == validate_worker_name(script)
        lookup == get_environment(m, env)
    IN
    IF IsErr(valid) THEN valid
    ELSE IF IsErr(lookup) THEN lookup
    ELSE IF IsSome(lookup.val)
    THEN LET environment == Unwrap(lookup.val)
             env_route_config ==
                 environment_route_config(environment, m.account_id, m.zone_id)
         IN
         IF IsSome(env_route_config)
         THEN DeployConfigBuild(script, Unwrap(env_route_config))
         ELSE top_level_fallback(DeployConfigBuild(script, route_config(m)))
    ELSE DeployConfigBuild(script, route_config(m))

\* The target type as the document declares it.
site_target_type_Declared(m) == m.target_type

\* Manifest::get_target, the match on self.site: site projects are always
\* webpack.
site_target_type(m) == IF IsSome(m.site) THEN "Webpack" ELSE m.target_type

\* The kv namespaces of an environment inherited like account_id is.
environment_kv_namespaces_Inherited(m, environment) ==
    IF IsSome(environment.kv_namespaces)
    THEN environment.kv_namespaces
    ELSE m.kv_namespaces

\* Manifest::get_target, target.kv_namespaces for an environment: its own,
\* never the top level's.
environment_kv_namespaces(m, environment) == environment.kv_namespaces

\* The account id of an environment taken from the top level alone.
environment_account_id_TopLevel(m, environment) == m.account_id

\* Manifest::get_target, target.account_id for an environment: its own when
\* it sets one, the top level's otherwise.
environment_account_id(m, environment) ==
    IF IsSome(environment.account_id)
    THEN Unwrap(environment.account_id)
    ELSE m.account_id

\* Manifest::get_target
get_target(m, environment_name) ==
    LET target_type == site_target_type(m)
        target == [target_type    |-> target_type,
                   account_id     |-> m.account_id,
                   webpack_config |-> m.webpack_config,
                   name           |-> m.name,
                   kv_namespaces  |-> m.kv_namespaces,
                   site           |-> m.site]
        lookup == get_environment(m, environment_name)
    IN
    IF IsErr(lookup) THEN lookup
    ELSE IF IsSome(lookup.val)
    THEN LET environment == Unwrap(lookup.val) IN
         Ok([target EXCEPT
               !.name = worker_name(m, environment_name),
               !.account_id = environment_account_id(m, environment),
               !.webpack_config = IF IsSome(environment.webpack_config)
                                  THEN environment.webpack_config ELSE @,
               !.kv_namespaces = environment_kv_namespaces(m, environment)])
    ELSE Ok(target)

\* The loop forgetting the names it has seen.
RECURSIVE DuplicateLoop_NoInsert(_, _, _)
DuplicateLoop_NoInsert(environments, order, acc) ==
    IF order = <<>> THEN acc
    ELSE LET environment == environments[Head(order)]
             next ==
                 IF IsSome(environment.name)
                 THEN LET name == Unwrap(environment.name) IN
                      IF name \in acc.names /\ name \notin acc.duplicate_names
                      THEN [acc EXCEPT !.duplicate_names = @ \cup {name}]
                      ELSE acc
                 ELSE acc
         IN DuplicateLoop_NoInsert(environments, Tail(order), next)

\* The body of the for loop of check_for_duplicate_names, run over the
\* overlays in the order `order` in which the HashMap yields them; acc holds
\* the two HashSets.
RECURSIVE DuplicateLoop(_, _, _)
DuplicateLoop(environments, order, acc) ==
    IF order = <<>> THEN acc
    ELSE LET environment == environments[Head(order)]
             next ==
                 IF IsSome(environment.name)
                 THEN LET name == Unwrap(environment.name) IN
                      IF name \in acc.names /\ name \notin acc.duplicate_names
                      THEN [acc EXCEPT !.duplicate_names = @ \cup {name}]
                      ELSE [acc EXCEPT !.names = @ \cup {name}]
                 ELSE acc
         IN DuplicateLoop(environments, Tail(order), next)

\* The initial HashSets without the top-level name.
duplicate_start_Empty(m) == [names |-> {}, duplicate_names |-> {}]

\* check_for_duplicate_names, the two HashSets before the loop:
\* names.insert(manifest.name)
duplicate_start(m) == [names |-> {m.name}, duplicate_names |-> {}]

\* check_for_duplicate_names
check_for_duplicate_names(m, order) ==
    LET start == duplicate_start(m)
        done == IF IsSome(m.env)
                THEN DuplicateLoop(Unwrap(m.env), order, start)
                ELSE start
    IN
    IF Cardinality(done.duplicate_names) >= 1
    THEN Err(NameConflictError(done.duplicate_names))
    ELSE Ok(<<>>)

\* The orders in which a HashMap with key set S may be iterated.
IterationOrders(S) ==
    {s \in [1..Cardinality(S) -> S] :
        \A i, j \in 1..Cardinality(S) : i # j => s[i] # s[j]}

EnvironmentKeys(m) == IF IsSome(m.env) THEN DOMAIN Unwrap(m.env) ELSE {}

\* Manifest::generate(name, target_type, config_path, site), the value it
\* builds: template is the parsed <config_path>/wrangler.toml, or None when
\* the file could not be read and Manifest::default() stands in for it.
generate(template, name, target_type, site) ==
    LET template_config == IF IsSome(template) THEN Unwrap(template)
                           ELSE ManifestDefault
        default_workers_dev ==
            IF IsSome(template_config.route)
            THEN IF Unwrap(template_config.route) = "" THEN Some(TRUE) ELSE None
            ELSE Some(TRUE)
    IN [template_config EXCEPT
          !.name = name,
          !.workers_dev = default_workers_dev,
          !.target_type = IF IsSome(target_type) THEN Unwrap(target_type) ELSE @,
          !.site = IF IsSome(site) /\ @ = None THEN site ELSE @]

\* The arguments generate is called with in the model.
GenerateNames == {"a", "w"}
GenerateTargetTypes == {None, Some("Rust")}
GenerateSites == {None, Some(SiteS)}

----------------------------------------------------------------------------
(* The state machine: a document is constructed into a Manifest once, by   *)
(* one of the constructors, and then queried any number of times.          *)

Init ==
    /\ manifest \in Manifests
    /\ built = "none"
    /\ ctor = Ok(<<>>)
    /\ op = "none"
    /\ arg = None
    /\ res = Ok(<<>>)

\* Manifest::new(config_path): the deserialized document is checked for
\* duplicate names and returned only if the check passes.
New ==
    /\ built = "none"
    /\ \E order \in IterationOrders(EnvironmentKeys(manifest)) :
          LET checked == check_for_duplicate_names(manifest, order) IN
          /\ ctor' = checked
          /\ built' = IF IsOk(checked) THEN "new" ELSE "rejected"
    /\ UNCHANGED <<manifest, op, arg, res>>

\* <Manifest as FromStr>::from_str(serialized_toml): toml::from_str alone.
FromStr ==
    /\ built = "none"
    /\ built' = "from_str"
    /\ UNCHANGED <<manifest, ctor, op, arg, res>>

\* Manifest::generate(name, target_type, config_path, site): the template is
\* read (or, unreadable, replaced by Manifest::default()), its name,
\* workers_dev, type and site are set from the arguments, and the result is
\* written back and returned, with no check for duplicate names. Serializing
\* or writing may fail, and then no Manifest is returned.
Generate ==
    /\ built = "none"
    /\ \E readable \in BOOLEAN, name \in GenerateNames,
          target_type \in GenerateTargetTypes, site \in GenerateSites :
          LET template == IF readable THEN Some(manifest) ELSE None IN
          \/ /\ manifest' = generate(template, name, target_type, site)
             /\ built' = "generate"
          \/ /\ manifest' = manifest
             /\ built' = "generate_failed"
    /\ UNCHANGED <<ctor, op, arg, res>>

Constructed == built \in {"new", "from_str", "generate"}

\* worker_name returns a String, never an error: res records it as Ok(name).
WorkerName ==
    /\ Constructed
    /\ \E env \in EnvArgs :
          /\ op' = "worker_name"
          /\ arg' = env
          /\ res' = Ok(worker_name(manifest, env))
    /\ UNCHANGED <<manifest, built, ctor>>

GetEnvironment ==
    /\ Constructed
    /\ \E env \in EnvArgs :
          /\ op' = "get_environment"
          /\ arg' = env
          /\ res' = get_environment(manifest, env)
    /\ UNCHANGED <<manifest, built, ctor>>

GetTarget ==
    /\ Constructed
    /\ \E env \in EnvArgs :
          /\ op' = "get_target"
          /\ arg' = env
          /\ res' = get_target(manifest, env)
    /\ UNCHANGED <<manifest, built, ctor>>

DeployConfig ==
    /\ Constructed
    /\ \E env \in EnvArgs :
          /\ op' = "deploy_config"
          /\ arg' = env
          /\ res' = deploy_config(manifest, env)
    /\ UNCHANGED <<manifest, built, ctor>>

Next ==
    \/ New
    \/ FromStr
    \/ Generate
    \/ WorkerName
    \/ GetEnvironment
    \/ GetTarget
    \/ DeployConfig

Spec == Init /\ [][Next]_vars

----------------------------------------------------------------------------
(* What the claims speak of, stated on the document itself.                *)

\* env names an overlay the document declares.
OverlayExists(m, env) ==
    /\ IsSome(env)
    /\ IsSome(m.env)
    /\ Unwrap(env) \in DOMAIN Unwrap(m.env)

OverlayOf(m, env) == Unwrap(m.env)[Unwrap(env)]

\* How often s occurs among the top-level name and the explicitly set names
\* of the overlays.
Occurrences(m, s) ==
    (IF m.name = s THEN 1 ELSE 0)
    + Cardinality({k \in EnvironmentKeys(m) : Unwrap(m.env)[k].name = Some(s)})

DeclaredNames(m) ==
    {m.name} \cup {Unwrap(Unwrap(m.env)[k].name) :
                     k \in {j \in EnvironmentKeys(m) :
                              IsSome(Unwrap(m.env)[j].name)}}

RepeatedNames(m) == {s \in DeclaredNames(m) : Occurrences(m, s) > 1}

----------------------------------------------------------------------------
(* C1: worker_name(env) always returns a name: the overlay's explicit name *)
(* when env names an existing overlay that sets one, "<top-level name>-    *)
(* <env>" when env names an existing overlay that sets none, and the       *)
(* top-level name in every other case; a failed lookup is never surfaced.  *)
C1_WorkerNameTotal ==
    op = "worker_name" =>
        res = Ok(IF OverlayExists(manifest, arg)
                 THEN IF IsSome(OverlayOf(manifest, arg).name)
                      THEN Unwrap(OverlayOf(manifest, arg).name)
                      ELSE manifest.name \o "-" \o Unwrap(arg)
                 ELSE manifest.name)

\* worker_name was asked for an environment the document's overlays do not
\* include, and answered with the top-level name.
C1_Witness ==
    /\ op = "worker_name"
    /\ arg = Some(MissingKey)
    /\ EnvironmentKeys(manifest) # {}
    /\ IsErr(get_environment(manifest, arg))
    /\ res = Ok(manifest.name)

(* C2: check_for_duplicate_names fails exactly when some string occurs     *)
(* more than once among the top-level name and the overlays' explicit      *)
(* names; its error then carries exactly the set of strings that occur     *)
(* more than once, whatever the order in which the environment map is      *)
(* iterated (New takes every order).                                       *)
C2_DuplicateSetExact ==
    built \in {"new", "rejected"} =>
        /\ (built = "rejected") <=> (RepeatedNames(manifest) # {})
        /\ ctor = IF RepeatedNames(manifest) = {}
                  THEN Ok(<<>>)
                  ELSE Err(NameConflictError(RepeatedNames(manifest)))

\* Manifest::new rejected a document in which one name occurs three times,
\* reporting it once.
C2_Witness ==
    /\ built = "rejected"
    /\ Occurrences(manifest, manifest.name) >= 3
    /\ ctor = Err(NameConflictError({manifest.name}))

(* C3: get_target(Some(E)) for an existing overlay E succeeds with E's own *)
(* kv_namespaces (absent when E declares none), never the top level's;     *)
(* get_target(None) carries the top-level kv_namespaces.                   *)
C3_KvNamespacesNotInherited ==
    op = "get_target" =>
        /\ OverlayExists(manifest, arg) =>
              /\ IsOk(res)
              /\ res.val.kv_namespaces = OverlayOf(manifest, arg).kv_namespaces
        /\ arg = None =>
              /\ IsOk(res)
              /\ res.val.kv_namespaces = manifest.kv_namespaces

\* get_target answered for an overlay with no kv_namespaces under a top
\* level that declares some, and the target has none.
C3_Witness ==
    /\ op = "get_target"
    /\ OverlayExists(manifest, arg)
    /\ IsSome(manifest.kv_namespaces)
    /\ OverlayOf(manifest, arg).kv_namespaces = None
    /\ IsOk(res)
    /\ res.val.kv_namespaces = None

(* C4: site is never inherited: when the top level declares a site, the    *)
(* target get_target returns for an existing overlay has no site.          *)
C4_SiteNotInherited ==
    (/\ op = "get_target"
     /\ OverlayExists(manifest, arg)
     /\ IsSome(manifest.site)) =>
        /\ IsOk(res)
        /\ res.val.site = None

(* C5: whenever get_target succeeds, for no environment or an existing     *)
(* overlay, the target type is Webpack if the top level declares a site    *)
(* and the top level's declared type otherwise.                            *)
C5_TargetTypeForcedBySite ==
    (op = "get_target" /\ IsOk(res)) =>
        /\ arg = None \/ OverlayExists(manifest, arg)
        /\ IsSome(manifest.site) => res.val.target_type = "Webpack"
        /\ manifest.site = None => res.val.target_type = manifest.target_type

\* get_target answered for an overlay of a document that declares a site
\* and a type other than Webpack, and the target is Webpack.
C5_Witness ==
    /\ op = "get_target"
    /\ OverlayExists(manifest, arg)
    /\ IsSome(manifest.site)
    /\ manifest.target_type = "Rust"
    /\ IsOk(res)
    /\ res.val.target_type = "Webpack"

\* The top-level routing fields a document may carry in place of its own.
TopRoutingVariants ==
    {[workers_dev |-> d, route |-> r, routes |-> rs] :
        d \in {None, Some(TRUE), Some(FALSE)}, r \in {None, Some("t.com/*")},
        rs \in {None, Some(<<"t1.com/*">>)}}

WithTopRouting(m, v) ==
    [m EXCEPT !.workers_dev = v.workers_dev, !.route = v.route,
              !.routes = v.routes]

\* What the claim C6 says deploy_config(Some(E)) returns once the script name
\* is settled: the overlay's own configuration built alone, or else the
\* top-level resolution with Zoned turned into EnvironmentRouteRequired.
C6_Resolution(m, env) ==
    LET script == worker_name(m, env)
        own == environment_route_config(OverlayOf(m, env), m.account_id,
                                        m.zone_id)
        top == DeployConfigBuild(script, route_config(m))
    IN
    IF own = None
    THEN IF IsErr(top) THEN top
         ELSE IF top.val.variant = "Zoned" THEN Err(EnvironmentRouteRequired)
         ELSE top
    ELSE DeployConfigBuild(script, Unwrap(own))

\* The overlay has a routing configuration of its own, and deploy_config
\* returns the same whatever the top-level route, routes and workers_dev.
C6_TopLevelNotConsulted(m, env) ==
    IsSome(environment_route_config(OverlayOf(m, env), m.account_id, m.zone_id))
        => \A v \in TopRoutingVariants :
              deploy_config(WithTopRouting(m, v), env) = deploy_config(m, env)

(* C6 as stated: for an existing overlay E with no routing configuration   *)
(* of its own, deploy_config(Some(E)) resolves the top-level routing       *)
(* fields under the script name worker_name(E) and fails with              *)
(* EnvironmentRouteRequired if that is Zoned, returns it if Zoneless,      *)
(* returns its error if it fails; for an overlay with a routing            *)
(* configuration the result is built from that configuration alone.        *)
C6_Original ==
    (op = "deploy_config" /\ OverlayExists(manifest, arg)) =>
        /\ res = C6_Resolution(manifest, arg)
        /\ C6_TopLevelNotConsulted(manifest, arg)

(* C6 amended: the same, for a script name worker_name(E) that             *)
(* validate_worker_name accepts; for one it rejects, deploy_config returns *)
(* the name error before any routing field is read.                        *)
C6_EnvironmentRouteRequired ==
    (op = "deploy_config" /\ OverlayExists(manifest, arg)) =>
        /\ IsValidName(worker_name(manifest, arg)) =>
              res = C6_Resolution(manifest, arg)
        /\ ~IsValidName(worker_name(manifest, arg)) =>
              res = Err(NameError(worker_name(manifest, arg)))
        /\ C6_TopLevelNotConsulted(manifest, arg)

\* deploy_config was asked for an overlay with no routing fields under a top
\* level that resolves to Zoned, and failed with EnvironmentRouteRequired.
C6_Witness ==
    /\ op = "deploy_config"
    /\ OverlayExists(manifest, arg)
    /\ environment_route_config(OverlayOf(manifest, arg), manifest.account_id,
                                manifest.zone_id) = None
    /\ IsOk(DeployConfigBuild(worker_name(manifest, arg), route_config(manifest)))
    /\ res = Err(EnvironmentRouteRequired)

\* The lookup error a named environment meets under C7 as stated: "no
\* overlays at all" is a document with no overlay, with or without an env
\* table.
C7_StatedLookup(m, env) ==
    IF EnvironmentKeys(m) = {}
    THEN Err(NoEnvironmentsDefined)
    ELSE IF Unwrap(env) \notin EnvironmentKeys(m)
    THEN Err(UnknownEnvironment(Unwrap(env)))
    ELSE Ok(Some(OverlayOf(m, env)))

\* The lookup as amended: NoEnvironmentsDefined only without an env table.
C7_AmendedLookup(m, env) ==
    IF m.env = None
    THEN Err(NoEnvironmentsDefined)
    ELSE IF Unwrap(env) \notin EnvironmentKeys(m)
    THEN Err(UnknownEnvironment(Unwrap(env)))
    ELSE Ok(Some(OverlayOf(m, env)))

(* C7 as stated: a lookup by name fails with NoEnvironmentsDefined when    *)
(* the document has no overlays at all, with UnknownEnvironment when       *)
(* overlays exist and none has the name, and yields the overlay otherwise; *)
(* with no name it yields no overlay. get_target and deploy_config return  *)
(* the lookup's error.                                                     *)
C7_Original ==
    /\ (op = "get_environment" /\ IsSome(arg)) =>
          res = C7_StatedLookup(manifest, arg)
    /\ (op = "get_environment" /\ arg = None) => res = Ok(None)
    /\ (op \in {"get_target", "deploy_config"} /\ IsSome(arg)
            /\ IsErr(C7_StatedLookup(manifest, arg))) =>
          res = C7_StatedLookup(manifest, arg)

(* C7 amended: a lookup by name fails with NoEnvironmentsDefined when the  *)
(* document has no env table, with UnknownEnvironment when it has an env   *)
(* table, even an empty one, that lacks the name, and yields the overlay   *)
(* otherwise; with no name it yields no overlay. get_target returns the    *)
(* lookup's error; deploy_config returns it when the top-level name, which *)
(* worker_name falls back to, passes validate_worker_name, and the name    *)
(* error otherwise.                                                        *)
C7_LookupErrors ==
    /\ (op = "get_environment" /\ IsSome(arg)) =>
          res = C7_AmendedLookup(manifest, arg)
    /\ (op = "get_environment" /\ arg = None) => res = Ok(None)
    /\ (op = "get_target" /\ IsSome(arg)
            /\ IsErr(C7_AmendedLookup(manifest, arg))) =>
          res = C7_AmendedLookup(manifest, arg)
    /\ (op = "deploy_config" /\ IsSome(arg)
            /\ IsErr(C7_AmendedLookup(manifest, arg))) =>
          res = IF IsValidName(manifest.name)
                THEN C7_AmendedLookup(manifest, arg)
                ELSE Err(NameError(manifest.name))

\* get_target was asked for an environment of a document whose env table is
\* empty, and failed with UnknownEnvironment.
C7_Witness ==
    /\ op = "get_target"
    /\ arg = Some(MissingKey)
    /\ IsSome(manifest.env)
    /\ EnvironmentKeys(manifest) = {}
    /\ res = Err(UnknownEnvironment(MissingKey))

\* The overlay env names has an explicit name / derives its name.
HasExplicitName(m, env) ==
    OverlayExists(m, env) /\ IsSome(OverlayOf(m, env).name)

HasDerivedName(m, env) ==
    OverlayExists(m, env) /\ OverlayOf(m, env).name = None

\* No environment, and every overlay of the document.
Deployments(m) == {None} \cup {Some(k) : k \in EnvironmentKeys(m)}

(* C8 as stated: once Manifest::new has accepted a document, worker_name   *)
(* of no environment and of every overlay, named explicitly or not, are    *)
(* pairwise different.                                                     *)
C8_Original ==
    built = "new" =>
        \A e1, e2 \in Deployments(manifest) :
            e1 # e2 => worker_name(manifest, e1) # worker_name(manifest, e2)

(* C8 amended: once Manifest::new has accepted a document, worker_name of  *)
(* no environment and of every overlay are pairwise different, except that *)
(* an overlay with no explicit name may derive the very name another       *)
(* overlay sets explicitly.                                                *)
C8_EffectiveNamesDistinct ==
    built = "new" =>
        \A e1, e2 \in Deployments(manifest) :
            (/\ e1 # e2
             /\ ~(HasDerivedName(manifest, e1) /\ HasExplicitName(manifest, e2))
             /\ ~(HasExplicitName(manifest, e1) /\ HasDerivedName(manifest, e2)))
                => worker_name(manifest, e1) # worker_name(manifest, e2)

\* Manifest::new accepted a document with two explicitly named overlays.
C8_Witness ==
    /\ built = "new"
    /\ \E e1, e2 \in Deployments(manifest) :
          /\ e1 # e2
          /\ HasExplicitName(manifest, e1)
          /\ HasExplicitName(manifest, e2)

(* C9: however a Manifest is constructed, one whose top-level and explicit *)
(* overlay names contain a duplicate is rejected at construction, so no    *)
(* query is ever answered on such a document.                              *)
C9_CheckedBeforeAnyQuery ==
    (op \in {"worker_name", "get_target", "deploy_config"} /\ IsOk(res)) =>
        RepeatedNames(manifest) = {}

\* Resolving the top-level routing fields directly.
C10_Direct(m) ==
    DeployConfigBuild(m.name, [account_id  |-> Some(m.account_id),
                               workers_dev |-> m.workers_dev,
                               route       |-> m.route,
                               routes      |-> m.routes,
                               zone_id     |-> m.zone_id])

(* C10 as stated: for a document with no overlays, deploy_config(None) is  *)
(* the result, success or error, of DeployConfig::build on the top-level   *)
(* name and the top-level routing fields.                                  *)
C10_Original ==
    (op = "deploy_config" /\ arg = None /\ EnvironmentKeys(manifest) = {}) =>
        res = C10_Direct(manifest)

(* C10 amended: for a document with no overlays whose top-level name       *)
(* validate_worker_name accepts, deploy_config(None) is the result,        *)
(* success or error, of DeployConfig::build on the top-level name and the  *)
(* top-level routing fields; for a name it rejects, deploy_config(None) is *)
(* the name error.                                                         *)
C10_TopLevelDirect ==
    (op = "deploy_config" /\ arg = None /\ EnvironmentKeys(manifest) = {}) =>
        res = IF IsValidName(manifest.name)
              THEN C10_Direct(manifest)
              ELSE Err(NameError(manifest.name))

\* deploy_config(None) on a document with no overlays returned the Zoned
\* configuration of the top-level route list.
C10_Witness ==
    /\ op = "deploy_config"
    /\ arg = None
    /\ EnvironmentKeys(manifest) = {}
    /\ IsOk(res)
    /\ res.val.variant = "Zoned"
    /\ res.val.routes = Unwrap(manifest.routes)

\* The top-level fields of a document as a target, each one unchanged.
C11_TopLevelFields(m) ==
    [target_type    |-> m.target_type,
     account_id     |-> m.account_id,
     webpack_config |-> m.webpack_config,
     name           |-> m.name,
     kv_namespaces  |-> m.kv_namespaces,
     site           |-> m.site]

\* For an existing overlay E, the target's account_id and webpack_config are
\* E's own when E sets them and the top level's otherwise.
C11_Overrides ==
    (op = "get_target" /\ OverlayExists(manifest, arg)) =>
        /\ IsOk(res)
        /\ res.val.account_id =
              IF IsSome(OverlayOf(manifest, arg).account_id)
              THEN Unwrap(OverlayOf(manifest, arg).account_id)
              ELSE manifest.account_id
        /\ res.val.webpack_config =
              IF IsSome(OverlayOf(manifest, arg).webpack_config)
              THEN OverlayOf(manifest, arg).webpack_config
              ELSE manifest.webpack_config

(* C11 as stated: for an existing overlay E, get_target(Some(E)) carries   *)
(* E's account_id and webpack_config when E sets them and the top level's  *)
(* otherwise; get_target(None) returns the top-level fields unchanged.     *)
C11_Original ==
    /\ C11_Overrides
    /\ (op = "get_target" /\ arg = None) =>
          res = Ok(C11_TopLevelFields(manifest))

(* C11 amended: the same for an overlay; get_target(None) returns the      *)
(* top-level name, account_id, webpack_config, kv_namespaces and site      *)
(* unchanged, and the top-level type unchanged unless the document         *)
(* declares a site, which makes the target type Webpack.                   *)
C11_MayOverride ==
    /\ C11_Overrides
    /\ (op = "get_target" /\ arg = None) =>
          res = Ok([C11_TopLevelFields(manifest) EXCEPT
                      !.target_type = IF IsSome(manifest.site)
                                      THEN "Webpack" ELSE @])

\* get_target answered for an overlay that sets its own account_id and no
\* webpack_config, under a top level that sets both: the target has the
\* overlay's account_id and the top level's webpack_config.
C11_Witness ==
    /\ op = "get_target"
    /\ OverlayExists(manifest, arg)
    /\ manifest.account_id = "acct"
    /\ IsSome(manifest.webpack_config)
    /\ OverlayOf(manifest, arg).account_id = Some("eacct")
    /\ OverlayOf(manifest, arg).webpack_config = None
    /\ IsOk(res)
    /\ res.val.account_id = "eacct"
    /\ res.val.webpack_config = manifest.webpack_config

=============================================================================
